---- MODULE Spec2Model ----
(***************************************************************************)
(* bookstack-markdown-export: the export run of main.py (main, export_doc) *)
(* over the page records of dao.py.                                        *)
(*                                                                         *)
(* A text is a sequence of one-character strings.  Offsets of matches and  *)
(* slices are Python's: 0-based, end-exclusive, negative and out-of-range  *)
(* slice bounds treated as Python treats them.                             *)
(***************************************************************************)
EXTENDS Integers, Sequences, FiniteSets, TLC

(***************************************************************************)
(* Python primitives                                                       *)
(***************************************************************************)
Min(S) == CHOOSE x \in S : \A y \in S : x <= y

Max(S) == CHOOSE x \in S : \A y \in S : x >= y

\* A slice bound as Python normalises it for a string of length n.
SliceIndex(i, n) == IF i < 0 THEN (IF i + n < 0 THEN 0 ELSE i + n)
                    ELSE (IF i > n THEN n ELSE i)

\* s[a:b]
PySlice(s, a, b) == SubSeq(s, SliceIndex(a, Len(s)) + 1, SliceIndex(b, Len(s)))

\* s[:b]
PyPrefix(s, b) == PySlice(s, 0, b)

\* s[a:]
PySuffix(s, a) == PySlice(s, a, Len(s))

\* The literal lit occurs in md at the 1-based position p.
At(md, p, lit) == /\ p >= 1
                  /\ p + Len(lit) - 1 <= Len(md)
                  /\ \A k \in 1..Len(lit) : md[p + k - 1] = lit[k]

\* The regex class ".": any character but a newline, for md[i..j].
NoNewline(md, i, j) == \A k \in i..j : md[k] # "\n"

\* The regex class \w.
WordChars == {"a", "b", "c", "d", "e", "f", "g", "h", "i", "j", "k", "l", "m",
              "n", "o", "p", "q", "r", "s", "t", "u", "v", "w", "x", "y", "z",
              "A", "B", "C", "D", "E", "F", "G", "H", "I", "J", "K", "L", "M",
              "N", "O", "P", "Q", "R", "S", "T", "U", "V", "W", "X", "Y", "Z",
              "0", "1", "2", "3", "4", "5", "6", "7", "8", "9", "_"}

\* \.\w{3} at position p
DotExt(md, p) == /\ p >= 1
                 /\ p + 3 <= Len(md)
                 /\ md[p] = "."
                 /\ \A k \in 1..3 : md[p + k] \in WordChars

(***************************************************************************)
(* main.py: module constants and the two patterns main compiles            *)
(***************************************************************************)
LOWEST_HEADER_LEVEL == 8

\* bookstack_url_root after rstrip("/")
BaseUrl == <<"B">>

UploadsPath == BaseUrl \o <<"/", "u", "p", "l", "o", "a", "d", "s", "/">>

BooksPath == BaseUrl \o <<"/", "b", "o", "o", "k", "s", "/">>

PagePath == <<"/", "p", "a", "g", "e", "/">>

\* IMAGE_LINK_REGEX_TEMPLATE, piece by piece:
\*   \[\!\[  .+  \]\(BASE/uploads/  .*?  \.\w{3}  \)\]\(
\*   ( BASE/uploads/  .*?  /  ( [^/]*?  \.\w{3} ) )  \)
ImgOpen == <<"[", "!", "[">>

ImgThumbOpen == <<"]", "(">> \o UploadsPath

ImgThumbClose == <<")", "]", "(">>

\* ([^/]*?\.\w{3})\) after the slash at c: the positions d of the dot.
ImgFileDots(md, c) ==
    {d \in (c + 1)..(Len(md) - 4) :
        /\ DotExt(md, d)
        /\ md[d + 4] = ")"
        /\ \A k \in (c + 1)..(d - 1) : md[k] # "/"}

\* BASE/uploads/.*?/ from q: the positions c of the closing slash.
ImgUrlSlashes(md, q) ==
    IF ~At(md, q, UploadsPath) THEN {}
    ELSE {c \in (q + Len(UploadsPath))..Len(md) :
            /\ md[c] = "/"
            /\ NoNewline(md, q + Len(UploadsPath), c - 1)
            /\ ImgFileDots(md, c) # {}}

\* .*?\.\w{3}\)\]\( after the thumbnail's BASE/uploads/, which ends before p:
\* the positions b of the thumbnail's dot from which the rest matches.
ImgThumbDots(md, p) ==
    {b \in p..Len(md) :
        /\ NoNewline(md, p, b - 1)
        /\ DotExt(md, b)
        /\ At(md, b + 4, ImgThumbClose)
        /\ ImgUrlSlashes(md, b + 7) # {}}

\* .+ from s + 3: the positions a of the "](" that ends the alt text.
ImgAltEnds(md, s) ==
    {a \in (s + 4)..Len(md) :
        /\ NoNewline(md, s + 3, a - 1)
        /\ At(md, a, ImgThumbOpen)
        /\ ImgThumbDots(md, a + Len(ImgThumbOpen)) # {}}

ImgMatchesAt(md, s) == At(md, s, ImgOpen) /\ ImgAltEnds(md, s) # {}

\* The match object at 1-based s: .+ is greedy (longest first), the three
\* lazy quantifiers take the shortest that lets the rest match.
ImgMatchAt(md, s) ==
    LET a == Max(ImgAltEnds(md, s))
        b == Min(ImgThumbDots(md, a + Len(ImgThumbOpen)))
        q == b + 7
        c == Min(ImgUrlSlashes(md, q))
        d == Min(ImgFileDots(md, c))
    IN [start |-> s - 1,
        end |-> d + 4,
        group1 |-> SubSeq(md, q, d + 3),
        group2 |-> SubSeq(md, c + 1, d + 3)]

\* The scan from the 1-based pos: the leftmost match, then on from its end.
RECURSIVE ImgScan(_, _)
ImgScan(md, pos) ==
    LET starts == {s \in pos..Len(md) : ImgMatchesAt(md, s)}
    IN IF starts = {} THEN <<>>
       ELSE LET m == ImgMatchAt(md, Min(starts))
            IN <<m>> \o ImgScan(md, m.end + 1)

\* tuple(image_link_regex.finditer(md))
image_link_finditer(md) == ImgScan(md, 1)

\* INTERNAL_LINK_REGEX_TEMPLATE: BASE/books/ (.+?) /page/ (.+?) \)
LinkPageEnds(md, g) ==
    {e \in (g + Len(PagePath) + 1)..Len(md) :
        /\ md[e] = ")"
        /\ NoNewline(md, g + Len(PagePath), e - 1)}

LinkBookEnds(md, s) ==
    {g \in (s + Len(BooksPath) + 1)..Len(md) :
        /\ NoNewline(md, s + Len(BooksPath), g - 1)
        /\ At(md, g, PagePath)
        /\ LinkPageEnds(md, g) # {}}

LinkMatchesAt(md, s) == At(md, s, BooksPath) /\ LinkBookEnds(md, s) # {}

LinkMatchAt(md, s) ==
    LET g == Min(LinkBookEnds(md, s))
        e == Min(LinkPageEnds(md, g))
    IN [start |-> s - 1,
        end |-> e,
        group1 |-> SubSeq(md, s + Len(BooksPath), g - 1),
        group2 |-> SubSeq(md, g + Len(PagePath), e - 1)]

RECURSIVE LinkScan(_, _)
LinkScan(md, pos) ==
    LET starts == {s \in pos..Len(md) : LinkMatchesAt(md, s)}
    IN IF starts = {} THEN <<>>
       ELSE LET m == LinkMatchAt(md, Min(starts))
            IN <<m>> \o LinkScan(md, m.end + 1)

\* tuple(internal_link_regex.finditer(md))
internal_link_finditer(md) == LinkScan(md, 1)

(***************************************************************************)
(* main.py: header_text, header_re, get_top_level_header                   *)
(***************************************************************************)
header_text(level) == [k \in 1..(level + 1) |-> IF k <= level THEN "#" ELSE " "]

\* "^" under re.MULTILINE: the start of the text or just after a newline.
LineStart(md, p) == p = 1 \/ (p > 1 /\ md[p - 1] = "\n")

\* The 1-based positions where header_re(level) matches.
header_re(level, md) ==
    {p \in 1..Len(md) : LineStart(md, p) /\ At(md, p, header_text(level))}

\* Optional[int]: <<>> is None, <<level>> a level.
get_top_level_header(md) ==
    LET found == {level \in 1..(LOWEST_HEADER_LEVEL - 1) : header_re(level, md) # {}}
    IN IF found = {} THEN <<>> ELSE <<Min(found)>>

\* The matches at the positions ps (none overlaps another) replaced, the
\* rightmost first so that the positions to its left stay those of md.
RECURSIVE SubAt(_, _, _, _)
SubAt(md, ps, level, replacement) ==
    IF ps = {} THEN md
    ELSE LET p == Max(ps)
         IN SubAt(SubSeq(md, 1, p - 1) \o replacement \o SubSeq(md, p + level + 1, Len(md)),
                  ps \ {p}, level, replacement)

\* header_re(level).sub(replacement, md)
header_sub(level, replacement, md) == SubAt(md, header_re(level, md), level, replacement)

RECURSIVE ApplyReplacements(_, _)
ApplyReplacements(reps, md) ==
    IF reps = <<>> THEN md
    ELSE ApplyReplacements(Tail(reps), header_sub(reps[1][1], reps[1][2], md))

\* The pairs of line 73 from the deepest level up.
replacements_descending(original_top_level) ==
    [k \in 1..(LOWEST_HEADER_LEVEL - original_top_level) |->
        <<LOWEST_HEADER_LEVEL - k,
          header_text(LOWEST_HEADER_LEVEL - k - original_top_level + 1)>>]

\* export_doc line 73: [(header_re(x), header_text(x - t + 1)) for x in range(t, 8)]
replacements(original_top_level) ==
    [k \in 1..(LOWEST_HEADER_LEVEL - original_top_level) |->
        <<original_top_level + k - 1, header_text(k)>>]

\* export_doc lines 70-76
normalize_headers(md) ==
    LET original_top_level == get_top_level_header(md)
    IN IF original_top_level # <<>> /\ original_top_level[1] # 1
       THEN ApplyReplacements(replacements(original_top_level[1]), md)
       ELSE md

(***************************************************************************)
(* main.py: export_doc's other text operations                             *)
(***************************************************************************)
Reverse(s) == [k \in 1..Len(s) |-> s[Len(s) + 1 - k]]

\* f"![]({image_filename})"
image_embed(image_filename) == <<"!", "[", "]", "(">> \o image_filename \o <<")">>

\* export_doc line 67
replace_image(md, match) ==
    PyPrefix(md, match.start) \o image_embed(match.group2) \o PySuffix(md, match.end + 1)

RECURSIVE ReplaceAll(_, _)
ReplaceAll(md, ms) ==
    IF ms = <<>> THEN md ELSE ReplaceAll(replace_image(md, ms[1]), Tail(ms))

\* The whole loop of export_doc lines 53-67 on a text, every download succeeding.
inline_images(md) == ReplaceAll(md, Reverse(image_link_finditer(md)))

\* f"# {'DRAFT: ' if doc.draft else ''}{doc.page_title}\n\n"
title_heading(doc) ==
    <<"#", " ">>
    \o (IF doc.draft THEN <<"D", "R", "A", "F", "T", ":", " ">> ELSE <<>>)
    \o doc.page_title
    \o <<"\n", "\n">>

\* doc.page_title.replace("/", "-")
safe_page_title(title) == [k \in 1..Len(title) |-> IF title[k] = "/" THEN "-" ELSE title[k]]

\* path_to_book / f"{safe_page_title}.md"
page_path(doc) == <<doc.shelf, doc.book, safe_page_title(doc.page_title) \o <<".", "m", "d">>>>

\* path_to_book / image_filename
image_path(doc, image_filename) == <<doc.shelf, doc.book, image_filename>>

\* str.splitlines(), for texts whose only line boundary is "\n"
RECURSIVE SplitFrom(_, _)
SplitFrom(s, from) ==
    LET breaks == {p \in from..Len(s) : s[p] = "\n"}
    IN IF from > Len(s) THEN <<>>
       ELSE IF breaks = {} THEN <<SubSeq(s, from, Len(s))>>
       ELSE <<SubSeq(s, from, Min(breaks) - 1)>> \o SplitFrom(s, Min(breaks) + 1)

splitlines(s) == SplitFrom(s, 1)

\* export_doc line 92
SNIPPET_LENGTH == 60

link_snippet(md, internal_link) ==
    PySlice(md, internal_link.start - SNIPPET_LENGTH, internal_link.start)

(***************************************************************************)
(* The page records get_all_pages returns: the inputs of a run             *)
(***************************************************************************)
\* The largest number of lines of a page of TextSpec.
MaxLines == 2

\* The largest number of page records of a run of Spec.
MaxPages == 2

Hashes(n) == [k \in 1..n |-> "#"]

HeadingLine(n) == Hashes(n) \o <<" ", "h">>

PngName(stem) == stem \o <<".", "p", "n", "g">>

\* [![a](B/uploads/t.png)](B/uploads/<dir>/<file>)
ImageRef(dir, file) ==
    <<"[", "!", "[", "a", "]", "(">> \o UploadsPath \o PngName(<<"t">>)
    \o <<")", "]", "(">> \o UploadsPath \o dir \o <<"/">> \o file \o <<")">>

\* [x](B/books/b/page/p)
PageLink == <<"[", "x", "]", "(">> \o BooksPath \o <<"b">> \o PagePath \o <<"p", ")">>

Digits == <<"0", "1", "2", "3", "4", "5", "6", "7", "8", "9">>

\* A line of 60 characters.
LongLine == Digits \o Digits \o Digits \o Digits \o Digits \o Digits

\* A reference whose file name runs over a line break, and a second
\* reference right behind it.
SplitNameRefs ==
    ImageRef(<<"d">>, <<"y", "\n">> \o PngName(<<"z">>)) \o ImageRef(<<"e">>, PngName(<<"g">>))

Lines ==
    {HeadingLine(n) : n \in 1..LOWEST_HEADER_LEVEL}
    \cup {<<"#", "x">>, <<" ", "#", " ", "x">>, LongLine, PageLink, SplitNameRefs,
          ImageRef(<<"d">>, PngName(<<"f">>)), ImageRef(<<"e">>, PngName(<<"f">>))}

RECURSIVE JoinLines(_)
JoinLines(ls) ==
    IF ls = <<>> THEN <<>>
    ELSE IF Len(ls) = 1 THEN ls[1]
    ELSE ls[1] \o <<"\n">> \o JoinLines(Tail(ls))

\* Every text of at most MaxLines of these lines.
Markdowns ==
    UNION {{JoinLines(ls) : ls \in [1..n -> Lines]} : n \in 0..MaxLines}

PageDetails(shelf, book, page_title, page_markdown, draft) ==
    [shelf |-> shelf, book |-> book, page_title |-> page_title,
     page_markdown |-> page_markdown, draft |-> draft]

\* TextSpec: one page, any of the texts.
TextDocuments ==
    {<<PageDetails("S", "B", <<"T">>, md, FALSE)>> : md \in Markdowns}

RunTitles == {<<"A", "/", "B">>, <<"A", "-", "B">>, <<"T">>}

\* A heading alone; a link alone; two references to files of one name
\* under two directories, between two headings.
RunMarkdowns ==
    {HeadingLine(2),
     PageLink,
     JoinLines(<<HeadingLine(3), ImageRef(<<"e">>, PngName(<<"f">>)),
                 ImageRef(<<"d">>, PngName(<<"f">>)), HeadingLine(4)>>)}

RunPages ==
    {PageDetails("S", "B", t, md, d) : t \in RunTitles, md \in RunMarkdowns, d \in BOOLEAN}

\* Spec: up to MaxPages pages of one book, no two rows of the query alike.
RunDocuments ==
    UNION {{docs \in [1..n -> RunPages] :
                \A i, j \in 1..n : i # j => docs[i] # docs[j]} : n \in 1..MaxPages}

(***************************************************************************)
(* main.py: main and export_doc as a state machine                         *)
(***************************************************************************)
VARIABLES
    documents,             \* main: the list of PageDetails; export_doc rewrites its doc
    idx,                   \* main: the number of the record the for loop is at
    pc,                    \* where the run is
    matches,               \* export_doc: what is left of reversed(tuple(finditer))
    response,              \* export_doc: the response of requests.get
    internal_links_found,  \* export_doc: its local flag
    manual_required,       \* main: its flag
    dirs,                  \* the directories on disk
    files,                 \* the files on disk: path -> content
    trace,                 \* history: every side effect, in order
    documents0             \* history: the records as get_all_pages returned them

vars == <<documents, idx, pc, matches, response, internal_links_found,
          manual_required, dirs, files, trace, documents0>>

NoResponse == [ok |-> FALSE, url |-> <<>>]

Event(kind, page, what, data) == [kind |-> kind, page |-> page, what |-> what, data |-> data]

doc == documents[idx]

\* The body the server holds at a URL.
content_at(url) == <<"content of", url>>

InitWith(docs) ==
    /\ documents = docs
    /\ documents0 = docs
    /\ idx = 0
    /\ pc = "main"
    /\ matches = <<>>
    /\ response = NoResponse
    /\ internal_links_found = FALSE
    /\ manual_required = FALSE
    /\ dirs = {}
    /\ files = <<>>
    /\ trace = <<>>

Init == \E docs \in RunDocuments : InitWith(docs)

TextInit == \E docs \in TextDocuments : InitWith(docs)

\* main line 130 taking the next record, export_doc lines 48-53
StartExport ==
    /\ pc = "main"
    /\ idx < Len(documents)
    /\ idx' = idx + 1
    /\ dirs' = dirs \cup {<<documents[idx + 1].shelf, documents[idx + 1].book>>}
    /\ matches' = Reverse(image_link_finditer(documents[idx + 1].page_markdown))
    /\ internal_links_found' = FALSE
    /\ trace' = Append(trace, Event("makedirs", idx + 1,
                                    <<documents[idx + 1].shelf, documents[idx + 1].book>>, <<>>))
    /\ pc' = "image_loop"
    /\ UNCHANGED <<documents, response, manual_required, files, documents0>>

\* export_doc lines 54-61, the status a success
DownloadImage ==
    /\ pc = "image_loop"
    /\ matches # <<>>
    /\ response' = [ok |-> TRUE, url |-> matches[1].group1]
    /\ trace' = Append(Append(trace, Event("echo_image", idx, matches[1].group2, <<>>)),
                       Event("get", idx, matches[1].group1, TRUE))
    /\ pc' = "image_write"
    /\ UNCHANGED <<documents, idx, matches, internal_links_found, manual_required,
                   dirs, files, documents0>>

\* Lines 54-61 without raise_for_status: the loop goes on with the response.
DownloadImageFailsUnraised ==
    /\ pc = "image_loop"
    /\ matches # <<>>
    /\ response' = [ok |-> FALSE, url |-> matches[1].group1]
    /\ trace' = Append(Append(trace, Event("echo_image", idx, matches[1].group2, <<>>)),
                       Event("get", idx, matches[1].group1, FALSE))
    /\ pc' = "image_write"
    /\ UNCHANGED <<documents, idx, matches, internal_links_found, manual_required,
                   dirs, files, documents0>>

\* export_doc lines 54-61, raise_for_status raising: nothing in export_doc or
\* main catches it
DownloadImageFails ==
    /\ pc = "image_loop"
    /\ matches # <<>>
    /\ response' = [ok |-> FALSE, url |-> matches[1].group1]
    /\ trace' = Append(Append(trace, Event("echo_image", idx, matches[1].group2, <<>>)),
                       Event("get", idx, matches[1].group1, FALSE))
    /\ pc' = "aborted"
    /\ UNCHANGED <<documents, idx, matches, internal_links_found, manual_required,
                   dirs, files, documents0>>

\* export_doc lines 63-64
WriteImage ==
    /\ pc = "image_write"
    /\ files' = (image_path(doc, matches[1].group2) :> content_at(response.url)) @@ files
    /\ trace' = Append(trace, Event("write_image", idx, image_path(doc, matches[1].group2),
                                    content_at(response.url)))
    /\ pc' = "image_replace"
    /\ UNCHANGED <<documents, idx, matches, response, internal_links_found,
                   manual_required, dirs, documents0>>

\* export_doc line 67
ReplaceImage ==
    /\ pc = "image_replace"
    /\ documents' = [documents EXCEPT ![idx].page_markdown = replace_image(@, matches[1])]
    /\ matches' = Tail(matches)
    /\ trace' = Append(trace, Event("replace", idx, matches[1].group2, <<>>))
    /\ pc' = "image_loop"
    /\ UNCHANGED <<idx, response, internal_links_found, manual_required, dirs, files,
                   documents0>>

\* Lines 70-79 with the title prepended before the headings are normalized.
NormalizeHeadersAfterTitle ==
    /\ pc = "image_loop"
    /\ matches = <<>>
    /\ documents' = [documents EXCEPT
                       ![idx].page_markdown = normalize_headers(title_heading(doc) \o @)]
    /\ pc' = "links"
    /\ UNCHANGED <<idx, matches, response, internal_links_found, manual_required,
                   dirs, files, trace, documents0>>

\* export_doc lines 70-76
NormalizeHeaders ==
    /\ pc = "image_loop"
    /\ matches = <<>>
    /\ documents' = [documents EXCEPT ![idx].page_markdown = normalize_headers(@)]
    /\ pc' = "title"
    /\ UNCHANGED <<idx, matches, response, internal_links_found, manual_required,
                   dirs, files, trace, documents0>>

\* Line 79 building the heading without storing it in the record.
AddTitleNotStored ==
    /\ pc = "title"
    /\ pc' = "links"
    /\ UNCHANGED <<documents, idx, matches, response, internal_links_found,
                   manual_required, dirs, files, trace, documents0>>

\* export_doc line 79
AddTitle ==
    /\ pc = "title"
    /\ documents' = [documents EXCEPT ![idx].page_markdown = title_heading(doc) \o @]
    /\ pc' = "links"
    /\ UNCHANGED <<idx, matches, response, internal_links_found, manual_required,
                   dirs, files, trace, documents0>>

\* What lines 85-94 echo for one match.
link_notices(page, md, internal_link) ==
    <<Event("echo_link", page, internal_link.group1, internal_link.group2)>>
    \o [k \in 1..Len(splitlines(link_snippet(md, internal_link))) |->
          Event("echo_snippet", page,
                <<" ", " ", " ", " ">> \o splitlines(link_snippet(md, internal_link))[k], <<>>)]

RECURSIVE AllLinkNotices(_, _, _)
AllLinkNotices(page, md, links) ==
    IF links = <<>> THEN <<>>
    ELSE link_notices(page, md, links[1]) \o AllLinkNotices(page, md, Tail(links))

\* export_doc lines 82-94
FindInternalLinks ==
    /\ pc = "links"
    /\ internal_links_found' = (internal_link_finditer(doc.page_markdown) # <<>>)
    /\ trace' = trace \o AllLinkNotices(idx, doc.page_markdown,
                                        internal_link_finditer(doc.page_markdown))
    /\ pc' = "save"
    /\ UNCHANGED <<documents, idx, matches, response, manual_required, dirs, files,
                   documents0>>

\* Lines 97-101 with main line 131 dropping its "or manual_required".
SavePageOverwritesFlag ==
    /\ pc = "save"
    /\ files' = (page_path(doc) :> doc.page_markdown) @@ files
    /\ trace' = Append(trace, Event("write_page", idx, page_path(doc), doc.page_markdown))
    /\ manual_required' = internal_links_found
    /\ pc' = "main"
    /\ UNCHANGED <<documents, idx, matches, response, internal_links_found, dirs,
                   documents0>>

\* export_doc lines 97-101 and main line 131 taking the result
SavePage ==
    /\ pc = "save"
    /\ files' = (page_path(doc) :> doc.page_markdown) @@ files
    /\ trace' = Append(trace, Event("write_page", idx, page_path(doc), doc.page_markdown))
    /\ manual_required' = (internal_links_found \/ manual_required)
    /\ pc' = "main"
    /\ UNCHANGED <<documents, idx, matches, response, internal_links_found, dirs,
                   documents0>>

\* main lines 133-136
Finish ==
    /\ pc = "main"
    /\ idx = Len(documents)
    /\ trace' = IF manual_required
                THEN Append(trace, Event("echo_manual_cleanup", 0, <<>>, <<>>))
                ELSE trace
    /\ pc' = "done"
    /\ UNCHANGED <<documents, idx, matches, response, internal_links_found,
                   manual_required, dirs, files, documents0>>

Next ==
    \/ StartExport
    \/ DownloadImage
    \/ DownloadImageFails
    \/ WriteImage
    \/ ReplaceImage
    \/ NormalizeHeaders
    \/ AddTitle
    \/ FindInternalLinks
    \/ SavePage
    \/ Finish

Spec == Init /\ [][Next]_vars

TextSpec == TextInit /\ [][Next]_vars

(***************************************************************************)
(* What the claims speak of                                                *)
(***************************************************************************)
\* Page i has been through export_doc.
Exported(i) == i < idx \/ (i = idx /\ pc \in {"main", "done"})

\* The image loop of the page at hand has run to its end.
ImagesInlined == pc = "image_loop" /\ matches = <<>>

PageEvents(i, kinds) == SelectSeq(trace, LAMBDA e : e.page = i /\ e.kind \in kinds)

KindAndWhat(events) == [k \in 1..Len(events) |-> <<events[k].kind, events[k].what>>]

\* The text with each span [start, end) of ms, and nothing else, replaced
\* by its bare embed; from0 is where the copying resumes.
RECURSIVE SpliceFrom(_, _, _)
SpliceFrom(md, ms, from0) ==
    IF ms = <<>> THEN PySuffix(md, from0)
    ELSE PySlice(md, from0, ms[1].start) \o image_embed(ms[1].group2)
         \o SpliceFrom(md, Tail(ms), ms[1].end)

SpansReplaced(md) == SpliceFrom(md, image_link_finditer(md), 0)

\* C1: when the image loop of a page has ended, the page's text is its
\* original text with exactly the matched spans replaced by ![](filename):
\* every character outside the spans, the one right after a match
\* included, is kept in place.
C1_OnlyMatchedSpansReplaced ==
    ImagesInlined =>
        doc.page_markdown = SpansReplaced(documents0[idx].page_markdown)

\* The 1-based positions where lit occurs in md.
Occurrences(md, lit) == {p \in 1..Len(md) : At(md, p, lit)}

BareEmbedOpen == <<"!", "[", "]", "(">>

RECURSIVE GetThenReplace(_)
GetThenReplace(ms) ==
    IF ms = <<>> THEN <<>>
    ELSE <<<<"get", ms[1].group1>>, <<"replace", ms[1].group2>>>> \o GetThenReplace(Tail(ms))

\* C5: when the image loop of a page with N matches has ended (every
\* download a success), there were exactly N downloads, one per match and
\* each before its match's replacement, and the text holds exactly N bare
\* embeds, one ![](filename) for each match's own file name; with N = 0
\* there was no download and the text is the original one.
C5_OneDownloadAndOneEmbedPerMatch ==
    ImagesInlined =>
        LET ms == image_link_finditer(documents0[idx].page_markdown)
        IN /\ KindAndWhat(PageEvents(idx, {"get", "replace"})) = GetThenReplace(Reverse(ms))
           /\ Cardinality(Occurrences(doc.page_markdown, BareEmbedOpen)) = Len(ms)
           /\ \A k \in 1..Len(ms) :
                Occurrences(doc.page_markdown, image_embed(ms[k].group2)) # {}
           /\ (ms = <<>> => doc.page_markdown = documents0[idx].page_markdown)

\* The characters at the offsets [max(0, s - 60), s) of md.
Preceding60(md, s) == SubSeq(md, (IF s - SNIPPET_LENGTH < 0 THEN 0 ELSE s - SNIPPET_LENGTH) + 1, s)

RECURSIVE ExpectedNotices(_, _, _)
ExpectedNotices(page, md, links) ==
    IF links = <<>> THEN <<>>
    ELSE <<Event("echo_link", page, links[1].group1, links[1].group2)>>
         \o [k \in 1..Len(splitlines(Preceding60(md, links[1].start))) |->
               Event("echo_snippet", page,
                     <<" ", " ", " ", " ">> \o splitlines(Preceding60(md, links[1].start))[k],
                     <<>>)]
         \o ExpectedNotices(page, md, Tail(links))

\* C8: once the links of a page have been looked for, what was echoed for
\* them is, for each match at offset s of the final text from left to
\* right, its notice and then the lines of the text at [max(0, s - 60), s).
C8_SnippetIsThe60CharactersBefore ==
    pc = "save" =>
        PageEvents(idx, {"echo_link", "echo_snippet"})
            = ExpectedNotices(idx, doc.page_markdown, internal_link_finditer(doc.page_markdown))

\* The lines of a text: what lies between its newlines.
RECURSIVE LinesFrom(_, _)
LinesFrom(md, from) ==
    LET breaks == {p \in from..Len(md) : md[p] = "\n"}
    IN IF breaks = {} THEN <<SubSeq(md, from, Len(md))>>
       ELSE <<SubSeq(md, from, Min(breaks) - 1)>> \o LinesFrom(md, Min(breaks) + 1)

TextLines(md) == LinesFrom(md, 1)

LeadingHashes(line) == Max({n \in 0..Len(line) : \A k \in 1..n : line[k] = "#"})

\* The level of a heading line, 0 for any other line.
HeadingLevel(line) ==
    LET n == LeadingHashes(line)
    IN IF n >= 1 /\ n < Len(line) /\ line[n + 1] = " " THEN n ELSE 0

\* The levels 1..7 a text has headings of.
HeadingLevels(md) ==
    {HeadingLevel(TextLines(md)[k]) : k \in 1..Len(TextLines(md))}
        \cap (1..(LOWEST_HEADER_LEVEL - 1))

\* A heading of level L in t..7 with t - 1 of its hashes taken away.
ShiftedLine(line, t) ==
    IF HeadingLevel(line) \in t..(LOWEST_HEADER_LEVEL - 1)
    THEN SubSeq(line, t, Len(line))
    ELSE line

HeadingsShifted(before, after) ==
    IF HeadingLevels(before) = {} \/ Min(HeadingLevels(before)) = 1
    THEN after = before
    ELSE /\ Len(TextLines(after)) = Len(TextLines(before))
         /\ \A k \in 1..Len(TextLines(before)) :
              /\ TextLines(after)[k] = ShiftedLine(TextLines(before)[k], Min(HeadingLevels(before)))
              /\ HeadingLevel(TextLines(before)[k]) \in
                    Min(HeadingLevels(before))..(LOWEST_HEADER_LEVEL - 1)
                 => HeadingLevel(TextLines(after)[k])
                      = HeadingLevel(TextLines(before)[k]) - Min(HeadingLevels(before)) + 1
         /\ Min(HeadingLevels(after)) = 1

\* C2: heading normalization turns every heading of level L, t <= L <= 7,
\* of the text it is given (t its lowest heading level, 2 <= t <= 7) into
\* one of level L - t + 1, once; it leaves deeper headings and other lines
\* alone, the lowest level of the result is 1, and with t none or 1 the
\* text is unchanged.
C2_HeadingsShiftedOnce ==
    pc = "title" =>
        HeadingsShifted(inline_images(documents0[idx].page_markdown), doc.page_markdown)

\* A text whose lowest level is 3 or more, with a deeper heading below 8.
C2_Witness ==
    /\ pc = "title"
    /\ LET before == inline_images(documents0[idx].page_markdown)
       IN /\ HeadingLevels(before) # {}
          /\ Min(HeadingLevels(before)) >= 3
          /\ Max(HeadingLevels(before)) > Min(HeadingLevels(before))
          /\ doc.page_markdown # before

\* The files the writes of a trace leave on disk.
RECURSIVE FilesWritten(_)
FilesWritten(events) ==
    IF events = <<>> THEN <<>>
    ELSE LET e == events[Len(events)]
         IN IF e.kind \in {"write_image", "write_page"}
            THEN (e.what :> e.data) @@ FilesWritten(SubSeq(events, 1, Len(events) - 1))
            ELSE FilesWritten(SubSeq(events, 1, Len(events) - 1))

\* The text export_doc is to write for a record as it was read.
ExportedText(d) ==
    title_heading(d) \o normalize_headers(inline_images(d.page_markdown))

\* C3: the content written for a page is "# ", "DRAFT: " for a draft and
\* only then, the title, two newlines, and the heading-normalized
\* image-inlined markdown: the title goes in after the normalization, and
\* looking for links leaves the text as it is.
C3_WrittenContent ==
    /\ (pc = "main" /\ idx >= 1) =>
          /\ trace[Len(trace)]
               = Event("write_page", idx, page_path(documents0[idx]), ExportedText(documents0[idx]))
          /\ files[page_path(documents0[idx])] = ExportedText(documents0[idx])
    /\ pc \in {"links", "save"} => doc.page_markdown = ExportedText(documents0[idx])
    /\ \A k \in 1..Len(trace) :
          trace[k].kind = "write_page" => Exported(trace[k].page)

\* A draft with an image and a heading to shift has been written.
C3_Witness ==
    \E k \in 1..Len(trace) :
        /\ trace[k].kind = "write_page"
        /\ documents0[trace[k].page].draft
        /\ image_link_finditer(documents0[trace[k].page].page_markdown) # <<>>
        /\ trace[k].data # title_heading(documents0[trace[k].page])
                             \o inline_images(documents0[trace[k].page].page_markdown)

\* C4: a download that returns a failure status is the last thing the run
\* does: the run is aborted, that match's image is not written and its
\* span not replaced, the page's Markdown file is not written, no later
\* record is touched, and the files written before are as they were.
C4_FailedDownloadAborts ==
    /\ \A k \in 1..Len(trace) :
          (trace[k].kind = "get" /\ trace[k].data = FALSE) =>
              /\ k = Len(trace)
              /\ pc = "aborted"
              /\ trace[k].page = idx
    /\ pc = "aborted" =>
          /\ trace # <<>>
          /\ trace[Len(trace)].kind = "get"
          /\ trace[Len(trace)].data = FALSE
          /\ matches # <<>>
          /\ trace[Len(trace)].what = matches[1].group1
          /\ \A k \in 1..Len(trace) : trace[k].page <= idx
          /\ PageEvents(idx, {"write_page"}) = <<>>
          /\ Len(PageEvents(idx, {"write_image"})) = Len(PageEvents(idx, {"get"})) - 1
          /\ Len(PageEvents(idx, {"replace"})) = Len(PageEvents(idx, {"get"})) - 1
          /\ LET ms == Reverse(image_link_finditer(documents0[idx].page_markdown))
             IN doc.page_markdown
                  = ReplaceAll(documents0[idx].page_markdown,
                               SubSeq(ms, 1, Len(ms) - Len(matches)))
          /\ files = FilesWritten(trace)
          /\ dirs = {<<documents0[i].shelf, documents0[i].book>> : i \in 1..idx}

\* The second download of the first of two pages has failed.
C4_Witness ==
    /\ pc = "aborted"
    /\ idx < Len(documents)
    /\ files # <<>>

\* The Markdown files on disk.
MarkdownFiles == {p \in DOMAIN files : \E i \in 1..Len(documents0) : p = page_path(documents0[i])}

\* C6: after a run that completes, every record has its own file at
\* shelf/book/sanitized(title).md holding the exported text of that page:
\* as many Markdown files as records.
C6_OneFilePerPage ==
    pc = "done" =>
        /\ \A i \in 1..Len(documents0) :
              /\ page_path(documents0[i]) \in DOMAIN files
              /\ files[page_path(documents0[i])] = ExportedText(documents0[i])
              /\ \A j \in 1..Len(documents0) :
                    i # j => page_path(documents0[i]) # page_path(documents0[j])
        /\ Cardinality(MarkdownFiles) = Len(documents0)

HasInternalLink(md) == internal_link_finditer(md) # <<>>

\* The flag the run must hold: a page that went through export_doc ended
\* with an internal link in its text.
SomeExportedPageHasLink == \E i \in 1..Len(documents) : Exported(i) /\ HasInternalLink(documents[i].page_markdown)

C7_FlagInvariant ==
    /\ pc \in {"main", "done"} => manual_required = SomeExportedPageHasLink
    /\ pc = "done" =>
          /\ idx = Len(documents)
          /\ \A i \in 1..Len(documents) : Len(PageEvents(i, {"write_page"})) = 1
          /\ (manual_required <=> trace[Len(trace)].kind = "echo_manual_cleanup")
    /\ \A k \in 1..Len(trace) :
          trace[k].kind = "echo_manual_cleanup" => (k = Len(trace) /\ pc = "done")

\* C7: a run without a fatal error exports every record, also once the
\* flag is true; the flag never goes back to false; and at the end the
\* flag is true, and the summary echoed, exactly when the final text of
\* some page had an internal link.
C7_LinksFlaggedNeverStop ==
    /\ []C7_FlagInvariant
    /\ [][manual_required => manual_required']_vars

\* A run of two pages ended, the first with a link, the second without.
C7_Witness ==
    /\ pc = "done"
    /\ Len(documents) = 2
    /\ HasInternalLink(documents[1].page_markdown)
    /\ ~HasInternalLink(documents[2].page_markdown)
    /\ manual_required

\* C9 as the spec has it: export_doc leaves its record as it was read, and
\* a second export of the record would write what the first wrote.
C9_RecordUnchanged ==
    \A i \in 1..Len(documents) :
        Exported(i) =>
            /\ documents[i] = documents0[i]
            /\ ExportedText(documents[i]) = files[page_path(documents[i])]

\* C9 as the code has it: export_doc rewrites the page_markdown of its
\* record: when it returns, the record holds the text written to the file,
\* which begins with the title heading; shelf, book, page_title and draft
\* are as they were read.
C9_OnlyMarkdownRewritten ==
    \A i \in 1..Len(documents) :
        Exported(i) =>
            /\ documents[i].shelf = documents0[i].shelf
            /\ documents[i].book = documents0[i].book
            /\ documents[i].page_title = documents0[i].page_title
            /\ documents[i].draft = documents0[i].draft
            /\ PageEvents(i, {"write_page"}) # <<>>
            /\ documents[i].page_markdown = PageEvents(i, {"write_page"})[1].data
            /\ PyPrefix(documents[i].page_markdown, Len(title_heading(documents0[i])))
                 = title_heading(documents0[i])

\* A page with an image has been exported and its record differs.
C9_Witness ==
    /\ pc = "main"
    /\ idx >= 1
    /\ image_link_finditer(documents0[idx].page_markdown) # <<>>
    /\ documents[idx].page_markdown # documents0[idx].page_markdown

\* C10: after a run that completes, behind every bare embed the image loop
\* put into a page lies, at shelf/book/filename, the body downloaded from
\* that match's own URL.
C10_ImageFileHoldsOwnDownload ==
    pc = "done" =>
        \A i \in 1..Len(documents0) :
            \A k \in 1..Len(image_link_finditer(documents0[i].page_markdown)) :
                LET m == image_link_finditer(documents0[i].page_markdown)[k]
                IN /\ image_path(documents0[i], m.group2) \in DOMAIN files
                   /\ files[image_path(documents0[i], m.group2)] = content_at(m.group1)

====
